---- MODULE Spec2Model ----
(***************************************************************************)
(* A model of the reward functions (src/reward_fn/compute_reward.py) and   *)
(* of the rubric example pipeline (src/reward_rubric/reward_rubric.py).    *)
(*                                                                         *)
(* Python strings are sequences of one-character strings, so that strip(), *)
(* lower(), `in`, split() and len() are computed as Python computes them.  *)
(* Floats are fixed-point integers in units of 1/Scale; every constant of  *)
(* the code is a multiple of 0.1 and the only division is by the length of *)
(* the trimmed ground truth, so with Scale a multiple of ten times every   *)
(* such length the arithmetic is exact.                                    *)
(***************************************************************************)
EXTENDS Integers, Sequences, FiniteSets, TLC

VARIABLES
    rw_fn,            \* which reward function was called ("idle" before the call)
    rw_solution_str,  \* its solution_str argument
    rw_ground_truth,  \* its ground_truth argument
    rw_extra_info,    \* its extra_info argument
    rw_result         \* its outcome: a returned number or a raised error

rewardVars == <<rw_fn, rw_solution_str, rw_ground_truth, rw_extra_info, rw_result>>

VARIABLES
    sel_called,          \* whether _select_record_from_jsonl was called
    sel_records,         \* its records argument
    sel_rubric_id,       \* its rubric_id argument
    sel_conversation_id, \* its conversation_id argument (None or a string)
    sel_result           \* its outcome: the selected record or a raised error

selectVars ==
    <<sel_called, sel_records, sel_rubric_id, sel_conversation_id, sel_result>>

VARIABLES
    sc_called,      \* whether score_with_hosted_model was called
    sc_extra_info,  \* its extra_info argument
    sc_outcome,     \* what its evaluate_rubric call did
    sc_result       \* its outcome: score or error, and extra_info after the call

scoreVars == <<sc_called, sc_extra_info, sc_outcome, sc_result>>

VARIABLES
    run_pc,            \* the stage run_example is in
    run_trace,         \* the stages entered so far, in order
    run_args,          \* rubric_id, conversation_id, capture_details, data path kind
    run_environ,       \* the process environment (os.environ)
    run_config,        \* the RubricConfig loaded
    run_record,        \* the dataset record selected
    run_settings,      \* model_info, provider and model after resolution
    run_request,       \* solution_str, ground_truth and extra_info of the request
    run_scorer_calls,  \* how many times evaluate_rubric was called
    run_outcome,       \* what the evaluate_rubric call did
    run_error,         \* the exception that ended the run ("none" until then)
    run_result         \* the outcome of score_with_hosted_model

runVars ==
    <<run_pc, run_trace, run_args, run_environ, run_config, run_record,
      run_settings, run_request, run_scorer_calls, run_outcome, run_error,
      run_result>>

VARIABLES
    main_pc,        \* where main is: "NOT_STARTED", "RUNNING" (in its try block), "EXITED"
    main_stdout,    \* the lines main printed, in order (the kind of each line)
    main_exit,      \* the exit status of the process (0 until it exits)
    main_uncaught   \* the exception that left main uncaught ("none" if none)

mainVars == <<main_pc, main_stdout, main_exit, main_uncaught>>

VARIABLES
    pg_called,    \* whether paginate_results was called
    pg_items,     \* the list being paginated
    pg_per_page,  \* the per_page of the calls
    pg_page,      \* the page of the last call
    pg_result,    \* the outcome of the last call
    pg_fetched,   \* how many pages a reader has fetched in order, from page 1
    pg_collected  \* the items of those pages, concatenated

pageVars ==
    <<pg_called, pg_items, pg_per_page, pg_page, pg_result, pg_fetched, pg_collected>>

VARIABLES
    nf_called,         \* whether normalize_features was called
    nf_data,           \* its data argument
    nf_feature_names,  \* its feature_names argument
    nf_result          \* its outcome: the normalized data or a raised error

normVars == <<nf_called, nf_data, nf_feature_names, nf_result>>

vars == <<rewardVars, selectVars, scoreVars, runVars, mainVars, pageVars, normVars>>

\* what a call of one component leaves alone
notRewardVars == <<selectVars, scoreVars, runVars, mainVars, pageVars, normVars>>
notSelectVars == <<rewardVars, scoreVars, runVars, mainVars, pageVars, normVars>>
notScoreVars == <<rewardVars, selectVars, runVars, mainVars, pageVars, normVars>>
notRunVars == <<rewardVars, selectVars, scoreVars, mainVars, pageVars, normVars>>
notMainVars == <<rewardVars, selectVars, scoreVars, runVars, pageVars, normVars>>
notPageVars == <<rewardVars, selectVars, scoreVars, runVars, mainVars, normVars>>
notNormVars == <<rewardVars, selectVars, scoreVars, runVars, mainVars, pageVars>>

-----------------------------------------------------------------------------
(* Bounds *)

\* Longest generated input string (all strings over Alphabet up to this length).
MaxLen == 2
\* Magnitude of the extreme numeric engagement_score / clarity_score values.
MaxScore == 40
\* Longest list handed to paginate_results.
MaxItems == 3
\* Magnitude of the per_page values tried (negative, zero and positive).
MaxPerPage == 3
\* Magnitude of the page values tried (negative, zero and positive).
MaxPage == 4
\* Most data points handed to normalize_features.
MaxPoints == 2
\* Magnitude of the feature values tried (negative, zero and positive).
MaxValue == 1
\* Longest dataset handed to _select_record_from_jsonl.
MaxRecords == 2
\* Magnitude of the largest score the external scorer returns.
MaxScorerValue == 2

-----------------------------------------------------------------------------
(* Python str operations *)

Whitespace == {" ", "\t", "\n"}

UpperChars == <<"A","B","C","D","E","F","G","H","I","J","K","L","M",
                "N","O","P","Q","R","S","T","U","V","W","X","Y","Z">>
LowerChars == <<"a","b","c","d","e","f","g","h","i","j","k","l","m",
                "n","o","p","q","r","s","t","u","v","w","x","y","z">>

SetMin(S) == CHOOSE x \in S : \A y \in S : x <= y
SetMax(S) == CHOOSE x \in S : \A y \in S : x >= y

\* the lower-case letter of each upper-case letter
ToLower ==
    [c \in {UpperChars[i] : i \in 1..Len(UpperChars)} |->
        LowerChars[CHOOSE i \in 1..Len(UpperChars) : UpperChars[i] = c]]

lower_char(c) == IF c \in DOMAIN ToLower THEN ToLower[c] ELSE c

\* str.lower()
lower(s) == [i \in 1..Len(s) |-> lower_char(s[i])]

\* str.strip(): leading and trailing whitespace removed
strip(s) ==
    LET idx == {i \in 1..Len(s) : s[i] \notin Whitespace}
    IN  IF idx = {} THEN <<>> ELSE SubSeq(s, SetMin(idx), SetMax(idx))

\* sub in s (the empty string is in every string)
Contains(sub, s) ==
    \E i \in 0..(Len(s) - Len(sub)) : SubSeq(s, i + 1, i + Len(sub)) = sub

\* len(s.split()): the number of maximal runs of non-whitespace
word_count(s) ==
    Cardinality({i \in 1..Len(s) :
        /\ s[i] \notin Whitespace
        /\ (i = 1 \/ s[i - 1] \in Whitespace)})

\* len(s.split('.'))
sentence_count(s) == Cardinality({i \in 1..Len(s) : s[i] = "."}) + 1

\* s.split('.')[-1]
last_sentence(s) ==
    LET dots == {i \in 1..Len(s) : s[i] = "."}
    IN  IF dots = {} THEN s ELSE SubSeq(s, SetMax(dots) + 1, Len(s))

\* the number of entries of the list kws that satisfy `kw in s`
CountIn(kws, s) == Cardinality({i \in 1..Len(kws) : Contains(kws[i], s)})

\* any(kw in s for kw in kws)
AnyIn(kws, s) == \E i \in 1..Len(kws) : Contains(kws[i], s)

RECURSIVE StrsOfLen(_, _)
StrsOfLen(A, n) ==
    IF n = 0 THEN {<<>>}
    ELSE {Append(s, c) : s \in StrsOfLen(A, n - 1), c \in A}

\* every string over the alphabet A of length at most n
StrsUpTo(A, n) == UNION {StrsOfLen(A, k) : k \in 0..n}

-----------------------------------------------------------------------------
(* Python values of the extra_info mapping of the reward functions *)

\* A call ends by returning a number or by raising an error.
Ok(v) == [exc |-> "none", value |-> v]
Raise(e) == [exc |-> e, value |-> 0]

\* The value under a numeric key: absent, None, a non-numeric str, or a number.
KeyAbsent == [tag |-> "absent", num |-> 0]
PyNone == [tag |-> "none", num |-> 0]
PyStr == [tag |-> "str", num |-> 0]
Num(n) == [tag |-> "num", num |-> n]

\* The value under a list key: absent, None, or a list of strings.
ListAbsent == [tag |-> "absent", items |-> <<>>]
ListNone == [tag |-> "none", items |-> <<>>]
List(xs) == [tag |-> "list", items |-> xs]

\* extra_info=None
NoExtraInfo ==
    [isNone |-> TRUE,
     engagement_score |-> KeyAbsent, clarity_score |-> KeyAbsent,
     key_concepts |-> ListAbsent, learning_objectives |-> ListAbsent,
     inappropriate |-> "absent", off_topic |-> "absent"]

\* extra_info={}
EmptyExtraInfo == [NoExtraInfo EXCEPT !.isNone = FALSE]

\* bool(extra_info): a mapping that is not None and has at least one key
Truthy(extra_info) ==
    /\ ~extra_info.isNone
    /\ \/ extra_info.engagement_score.tag # "absent"
       \/ extra_info.clarity_score.tag # "absent"
       \/ extra_info.key_concepts.tag # "absent"
       \/ extra_info.learning_objectives.tag # "absent"
       \/ extra_info.inappropriate # "absent"
       \/ extra_info.off_topic # "absent"

\* extra_info.get(key, 0) for a numeric key
GetNum(v) == IF v.tag = "absent" THEN Num(0) ELSE v

-----------------------------------------------------------------------------
(* Input domains *)

Alphabet == {"a", "B", " "}

S_anything == <<"a","n","y","t","h","i","n","g">>
S_exact_match == <<"e","x","a","c","t"," ","m","a","t","c","h">>
S_Exact_Match_sp == <<"E","x","a","c","t"," ","M","a","t","c","h"," ">>
S_because_first == <<"b","e","c","a","u","s","e"," ","f","i","r","s","t">>
S_spam == <<"s","p","a","m">>
S_Imagine == <<"I","m","a","g","i","n","e"," ","a","n","o","t","h","e","r"," ","o","p","t","i","o","n">>
S_five_words == <<"a"," ","b"," ","c"," ","d"," ","e",".">>
S_ten_words == <<"a"," ","b"," ","c"," ","d"," ","e"," ","f"," ","g"," ","h"," ","i"," ","j",".">>

\* solution_str arguments of compute_reward
RewardSolutions ==
    StrsUpTo(Alphabet, MaxLen) \cup
    {S_exact_match, S_Exact_Match_sp, S_because_first, S_spam, S_Imagine,
     S_five_words, S_ten_words}

\* ground_truth arguments of compute_reward
RewardTruths == {<<>>, <<" ">>, <<"a">>, <<"B", "a">>, S_anything, S_exact_match}

EngagementScores == {KeyAbsent, PyNone, PyStr, Num(1), Num(MaxScore)}

ClarityScores == {KeyAbsent, PyNone, Num(MaxScore), Num(0 - MaxScore)}

ConceptLists ==
    {ListAbsent, ListNone, List(<<>>), List(<<<<"A">>, <<"b">>, <<"a">>>>)}

RewardExtraInfos ==
    {NoExtraInfo} \cup
    [isNone : {FALSE},
     engagement_score : EngagementScores, clarity_score : ClarityScores,
     key_concepts : {ListAbsent, ListNone, List(<<<<"A">>, <<"b">>>>)},
     learning_objectives : {ListAbsent, ListNone, List(<<<<"A">>, <<"e">>>>)},
     inappropriate : {"absent", "True"}, off_topic : {"absent", "True"}]

\* arguments of a direct call of appropriateness_penalty
S_Buy_Now_sp == <<" ","B","u","y"," ","N","o","w"," ">>
PenaltySolutions == RewardSolutions \cup {S_Buy_Now_sp}
PenaltyExtraInfos ==
    {NoExtraInfo, EmptyExtraInfo, [EmptyExtraInfo EXCEPT !.engagement_score = Num(1)]}
    \cup {[EmptyExtraInfo EXCEPT !.inappropriate = i, !.off_topic = o] :
             i \in {"absent", "False", "True"}, o \in {"absent", "False", "True"}}

\* arguments of a direct call of correctness_reward
CorrectnessStrs == StrsUpTo(Alphabet, MaxLen) \cup {S_exact_match, S_Exact_Match_sp}

CorrectnessExtraInfos ==
    {NoExtraInfo, EmptyExtraInfo} \cup
    {[EmptyExtraInfo EXCEPT !.key_concepts = k] : k \in ConceptLists \ {ListAbsent}}

-----------------------------------------------------------------------------
(* Fixed-point numbers *)

RECURSIVE Gcd(_, _)
Gcd(a, b) == IF b = 0 THEN a ELSE Gcd(b, a % b)

RECURSIVE LcmSet(_)
LcmSet(S) ==
    IF S = {} THEN 1
    ELSE LET x == CHOOSE y \in S : TRUE
             r == LcmSet(S \ {x})
         IN  (x * r) \div Gcd(x, r)

\* the lengths len(ground_truth.strip()) that the model divides by
TruthLens == {Len(strip(g)) : g \in RewardTruths} \ {0}

\* the integer that stands for 0.1
Tenth == LcmSet(TruthLens)
\* the integer that stands for 1.0
Scale == 10 * Tenth

\* n tenths: Tenths(25) is 2.5
Tenths(n) == n * Tenth

NumMin(a, b) == IF a <= b THEN a ELSE b
NumMax(a, b) == IF a >= b THEN a ELSE b

-----------------------------------------------------------------------------
(* src/reward_fn/compute_reward.py *)

explanation_keywords ==
    << <<"b","e","c","a","u","s","e">>,
       <<"t","h","e","r","e","f","o","r","e">>,
       <<"s","i","n","c","e">>,
       <<"d","u","e"," ","t","o">>,
       <<"a","s"," ","a"," ","r","e","s","u","l","t">>,
       <<"t","h","i","s"," ","m","e","a","n","s">>,
       <<"i","n"," ","o","t","h","e","r"," ","w","o","r","d","s">>,
       <<"f","o","r"," ","e","x","a","m","p","l","e">> >>

\* "bullet" stands for the one character U+2022
structure_markers ==
    << <<"1",".">>,
       <<"2",".">>,
       <<"bullet">>,
       <<"-">>,
       <<"f","i","r","s","t">>,
       <<"s","e","c","o","n","d">> >>

creativity_indicators ==
    << <<"i","n","n","o","v","a","t","i","v","e">>,
       <<"c","r","e","a","t","i","v","e">>,
       <<"a","l","t","e","r","n","a","t","i","v","e">>,
       <<"a","n","o","t","h","e","r"," ","w","a","y">>,
       <<"d","i","f","f","e","r","e","n","t"," ","a","p","p","r","o","a","c","h">>,
       <<"f","o","r"," ","i","n","s","t","a","n","c","e">>,
       <<"i","m","a","g","i","n","e">> >>

perspective_markers ==
    << <<"a","l","t","e","r","n","a","t","i","v","e","l","y">>,
       <<"o","p","t","i","o","n">> >>

clarity_transitions ==
    << <<"f","i","r","s","t">>,
       <<"n","e","x","t">>,
       <<"t","h","e","n">>,
       <<"f","i","n","a","l","l","y">>,
       <<"i","n"," ","c","o","n","c","l","u","s","i","o","n">> >>

spam_indicators ==
    << <<"s","p","a","m">>,
       <<"c","l","i","c","k"," ","h","e","r","e">>,
       <<"b","u","y"," ","n","o","w">>,
       <<"f","r","e","e"," ","m","o","n","e","y">> >>

engagement_quality_reward(solution_str, ground_truth, extra_info) ==
    IF strip(solution_str) = <<>> THEN Ok(0)
    ELSE
        LET solution_length == Len(strip(solution_str))
            truth_length == Len(strip(ground_truth))
            \* min(solution_length / truth_length, 2.0) * 0.3
            length_term ==
                IF truth_length > 0
                THEN IF solution_length >= 2 * truth_length
                     THEN Tenths(6)
                     ELSE (3 * solution_length * Tenth) \div truth_length
                ELSE 0
            engagement_score == GetNum(extra_info.engagement_score)
        IN  IF ~Truthy(extra_info) THEN Ok(Tenths(1) + length_term)
            ELSE IF engagement_score.tag # "num" THEN Raise("TypeError")
            ELSE Ok(Tenths(1) + length_term
                    + NumMin(Tenths(2) * engagement_score.num, Tenths(10)))

\* correctness_reward with the key-concept rule tried before the substring rule
correctness_reward_concepts_first(solution_str, ground_truth, extra_info) ==
    LET solution_clean == lower(strip(solution_str))
        truth_clean == lower(strip(ground_truth))
        has_concepts ==
            Truthy(extra_info) /\ extra_info.key_concepts.tag = "list"
        key_concepts ==
            [i \in 1..Len(extra_info.key_concepts.items) |->
                lower(extra_info.key_concepts.items[i])]
    IN  IF solution_clean = truth_clean THEN Ok(Tenths(50))
        ELSE IF has_concepts /\ CountIn(key_concepts, solution_clean) > 0
        THEN Ok(Tenths(10) * CountIn(key_concepts, solution_clean))
        ELSE IF Contains(solution_clean, truth_clean)
                \/ Contains(truth_clean, solution_clean) THEN Ok(Tenths(25))
        ELSE IF Truthy(extra_info) /\ extra_info.key_concepts.tag = "none"
        THEN Raise("TypeError")
        ELSE Ok(0)

correctness_reward(solution_str, ground_truth, extra_info) ==
    LET solution_clean == lower(strip(solution_str))
        truth_clean == lower(strip(ground_truth))
    IN  IF solution_clean = truth_clean THEN Ok(Tenths(50))
        ELSE IF Contains(solution_clean, truth_clean)
                \/ Contains(truth_clean, solution_clean) THEN Ok(Tenths(25))
        ELSE IF Truthy(extra_info) /\ extra_info.key_concepts.tag # "absent"
        THEN IF extra_info.key_concepts.tag = "none" THEN Raise("TypeError")
             ELSE LET key_concepts ==
                          [i \in 1..Len(extra_info.key_concepts.items) |->
                              lower(extra_info.key_concepts.items[i])]
                      matches == CountIn(key_concepts, solution_clean)
                  IN  IF matches > 0 THEN Ok(Tenths(10) * matches) ELSE Ok(0)
        ELSE Ok(0)

explanation_quality_reward(solution_str, ground_truth, extra_info) ==
    LET solution_clean == strip(solution_str)
    IN  IF solution_clean = <<>> THEN Ok(0)
        ELSE
            LET keyword_count == CountIn(explanation_keywords, lower(solution_clean))
                keyword_term == NumMin(Tenths(5) * keyword_count, Tenths(20))
                structure_term ==
                    IF AnyIn(structure_markers, solution_clean) THEN Tenths(10) ELSE 0
            IN  IF Truthy(extra_info) /\ extra_info.learning_objectives.tag # "absent"
                THEN IF extra_info.learning_objectives.tag = "none"
                     THEN Raise("TypeError")
                     ELSE LET objectives ==
                                  [i \in 1..Len(extra_info.learning_objectives.items) |->
                                      lower(extra_info.learning_objectives.items[i])]
                              covered == CountIn(objectives, lower(solution_clean))
                          IN  Ok(keyword_term + structure_term + Tenths(8) * covered)
                ELSE Ok(keyword_term + structure_term)

creativity_reward(solution_str, ground_truth, extra_info) ==
    LET solution_clean == strip(solution_str)
        truth_clean == strip(ground_truth)
    IN  IF solution_clean = <<>> THEN Ok(0)
        ELSE
            LET \* len(solution_clean) > len(truth_clean) * 0.8
                different_term ==
                    IF /\ lower(solution_clean) # lower(truth_clean)
                       /\ 10 * Len(solution_clean) > 8 * Len(truth_clean)
                    THEN Tenths(15) ELSE 0
                creative_count == CountIn(creativity_indicators, lower(solution_clean))
                creative_term == NumMin(Tenths(7) * creative_count, Tenths(20))
                perspective_term ==
                    IF AnyIn(perspective_markers, lower(solution_clean))
                    THEN Tenths(10) ELSE 0
            IN  Ok(different_term + creative_term + perspective_term)

clarity_reward(solution_str, ground_truth, extra_info) ==
    LET solution_clean == strip(solution_str)
    IN  IF solution_clean = <<>> THEN Ok(0)
        ELSE
            LET ending_term ==
                    IF /\ sentence_count(solution_clean) > 1
                       /\ strip(last_sentence(solution_clean)) = <<>>
                    THEN Tenths(5) ELSE 0
                words == word_count(solution_clean)
                length_term ==
                    IF 10 <= words /\ words <= 100 THEN Tenths(10)
                    ELSE IF 5 <= words /\ words <= 150 THEN Tenths(5)
                    ELSE 0
                structure_term ==
                    IF AnyIn(clarity_transitions, lower(solution_clean))
                    THEN Tenths(8) ELSE 0
                clarity_score == GetNum(extra_info.clarity_score)
            IN  IF ~Truthy(extra_info)
                THEN Ok(ending_term + length_term + structure_term)
                ELSE IF clarity_score.tag # "num" THEN Raise("TypeError")
                ELSE Ok(ending_term + length_term + structure_term
                        + Tenths(15) * clarity_score.num)

\* appropriateness_penalty that stops at the first penalty that applies
appropriateness_penalty_first_only(solution_str, ground_truth, extra_info) ==
    LET solution_clean == lower(strip(solution_str))
    IN  IF solution_clean = <<>> THEN Ok(0 - Tenths(10))
        ELSE IF Len(solution_clean) < 3 THEN Ok(0 - Tenths(20))
        ELSE IF AnyIn(spam_indicators, solution_clean) THEN Ok(0 - Tenths(50))
        ELSE IF Truthy(extra_info) /\ extra_info.inappropriate = "True"
        THEN Ok(0 - Tenths(100))
        ELSE IF Truthy(extra_info) /\ extra_info.off_topic = "True"
        THEN Ok(0 - Tenths(30))
        ELSE Ok(0)

appropriateness_penalty(solution_str, ground_truth, extra_info) ==
    LET solution_clean == lower(strip(solution_str))
    IN  IF solution_clean = <<>> THEN Ok(0 - Tenths(10))
        ELSE
            LET short_term == IF Len(solution_clean) < 3 THEN 0 - Tenths(20) ELSE 0
                spam_term ==
                    IF AnyIn(spam_indicators, solution_clean) THEN 0 - Tenths(50) ELSE 0
                inappropriate_term ==
                    IF Truthy(extra_info) /\ extra_info.inappropriate = "True"
                    THEN 0 - Tenths(100) ELSE 0
                off_topic_term ==
                    IF Truthy(extra_info) /\ extra_info.off_topic = "True"
                    THEN 0 - Tenths(30) ELSE 0
            IN  Ok(short_term + spam_term + inappropriate_term + off_topic_term)

\* clamp_reward without the upper bound
clamp_reward_no_upper(reward) == NumMax(0 - Tenths(200), reward)

\* max(-20.0, min(50.0, reward))
clamp_reward(reward) == NumMax(0 - Tenths(200), NumMin(Tenths(500), reward))

\* the sum of the sub-rewards, clamped; a sub-reward's error propagates
sum_rewards(parts) ==
    LET raised == {i \in 1..Len(parts) : parts[i].exc # "none"}
    IN  IF raised # {} THEN Raise(parts[SetMin(raised)].exc)
        ELSE Ok(clamp_reward(parts[1].value + parts[2].value + parts[3].value
                             + parts[4].value + parts[5].value + parts[6].value))

compute_reward(solution_str, ground_truth, extra_info) ==
    sum_rewards(
        << engagement_quality_reward(solution_str, ground_truth, extra_info),
           correctness_reward(solution_str, ground_truth, extra_info),
           explanation_quality_reward(solution_str, ground_truth, extra_info),
           creativity_reward(solution_str, ground_truth, extra_info),
           clarity_reward(solution_str, ground_truth, extra_info),
           appropriateness_penalty(solution_str, ground_truth, extra_info) >>)

-----------------------------------------------------------------------------
(* Optional Python strings: None (or an absent key) or a str *)

NoneStr == [has |-> FALSE, v |-> <<>>]
Str(s) == [has |-> TRUE, v |-> s]

\* str(x or ""): None and "" both give ""
OrEmpty(x) == IF x.has THEN x.v ELSE <<>>

\* bool(x) for an optional string: neither None nor ""
TruthyStr(x) == x.has /\ x.v # <<>>

-----------------------------------------------------------------------------
(* src/reward_rubric/reward_rubric.py: record selection *)

\* A dataset record. has_solution_str is `"solution_str" in record`.
Record(rubric_id, conversation_id, has_solution_str, solution_str, ground_truth, has_metadata, original_input) ==
    [rubric_id |-> rubric_id, conversation_id |-> conversation_id,
     has_solution_str |-> has_solution_str, solution_str |-> solution_str,
     ground_truth |-> ground_truth, has_metadata |-> has_metadata,
     original_input |-> original_input]

NoRecord ==
    Record(NoneStr, NoneStr, FALSE, NoneStr, NoneStr, FALSE, NoneStr)

\* An outcome of a record lookup: a record, or a raised error with the
\* message it carries ("no_conversation", "no_records", "no_solution_str", ...).
Selected(record) == [exc |-> "none", message |-> "", record |-> record]
SelectError(exc, message) == [exc |-> exc, message |-> message, record |-> NoRecord]

\* the filter of the loop of _select_record_from_jsonl
record_matches(record, rubric_id, conversation_id) ==
    LET record_rubric == strip(OrEmpty(record.rubric_id))
        record_conv == strip(OrEmpty(record.conversation_id))
    IN  /\ ~(record_rubric # <<>> /\ record_rubric # rubric_id)
        /\ ~(conversation_id.has /\ record_conv # conversation_id.v)

\* select_from_matched taking the last match instead of the first
select_last_matched(matched, conversation_id) ==
    IF TruthyStr(conversation_id) /\ matched = <<>>
    THEN SelectError("CLIError", "no_conversation")
    ELSE IF matched = <<>> THEN SelectError("CLIError", "no_records")
    ELSE IF ~matched[Len(matched)].has_solution_str
    THEN SelectError("ValueError", "no_solution_str")
    ELSE Selected(matched[Len(matched)])

select_from_matched(matched, conversation_id) ==
    IF TruthyStr(conversation_id) /\ matched = <<>>
    THEN SelectError("CLIError", "no_conversation")
    ELSE IF matched = <<>> THEN SelectError("CLIError", "no_records")
    ELSE IF ~matched[1].has_solution_str
    THEN SelectError("ValueError", "no_solution_str")
    ELSE Selected(matched[1])

_select_record_from_jsonl(records, rubric_id, conversation_id) ==
    LET Matches(record) == record_matches(record, rubric_id, conversation_id)
    IN  select_from_matched(SelectSeq(records, Matches), conversation_id)

-----------------------------------------------------------------------------
(* src/reward_rubric/reward_rubric.py: settings, request context, scoring *)

\* SCORE_MIN = 0.0, SCORE_MAX = 1.0 (rubric scores are modelled in units of 1.0)
SCORE_MIN == 0
SCORE_MAX == 1

DEFAULT_PROVIDER_API_KEY_ENV == <<"O","P","E","N","A","I","_","A","P","I","_","K","E","Y">>

\* osmosis_ai.rubric_eval.DEFAULT_API_KEY_ENV, imported as PROVIDER_API_KEY_ENV:
\* the provider-keyed table of environment variable names
PROVIDER_API_KEY_ENV ==
    [p \in {<<"o","p","e","n","a","i">>, <<"a","n","t","h","r","o","p","i","c">>, <<"x","a","i">>} |->
        IF p = <<"o","p","e","n","a","i">> THEN <<"O","P","E","N","A","I","_","A","P","I","_","K","E","Y">>
        ELSE IF p = <<"a","n","t","h","r","o","p","i","c">> THEN <<"A","N","T","H","R","O","P","I","C","_","A","P","I","_","K","E","Y">>
        ELSE <<"X","A","I","_","A","P","I","_","K","E","Y">>]

\* An optional number: None or a number.
NoneNum == [has |-> FALSE, n |-> 0]
SomeNum(n) == [has |-> TRUE, n |-> n]

\* A model_info value; is_dict is isinstance(model_info, dict).
ModelInfo(provider, model, api_key_env, api_key, system_prompt) ==
    [is_dict |-> TRUE, provider |-> provider, model |-> model,
     api_key_env |-> api_key_env, api_key |-> api_key,
     system_prompt |-> system_prompt]

NotAModelInfo ==
    [ModelInfo(NoneStr, NoneStr, NoneStr, NoneStr, NoneStr) EXCEPT !.is_dict = FALSE]

\* A RubricConfig.
Config(model_info, system_prompt, rubric_text, score_min, score_max, ground_truth) ==
    [model_info |-> model_info, system_prompt |-> system_prompt,
     rubric_text |-> rubric_text, score_min |-> score_min, score_max |-> score_max,
     ground_truth |-> ground_truth, source_label |-> "config"]

NoConfig ==
    Config(NotAModelInfo, NoneStr, NoneStr, NoneNum, NoneNum, NoneStr)

\* The structured result of the scorer: {"score": ..., "explanation": ...}.
NoDetails == [has |-> FALSE, score |-> 0, explanation |-> NoneStr]
Details(score, explanation) ==
    [has |-> TRUE, score |-> score, explanation |-> explanation]

\* The request context before it is built.
NoExtra ==
    [capture_details |-> FALSE, rubric |-> <<>>,
     score_min |-> 0, score_max |-> 0, model_info |-> NotAModelInfo,
     rubric_source |-> "", provider |-> <<>>, model |-> <<>>,
     api_key_env |-> NoneStr, api_key |-> NoneStr, has_metadata |-> FALSE,
     conversation_id |-> NoneStr, original_input |-> NoneStr,
     result_details |-> NoDetails]

\* os.getenv(name) in the environment environ
getenv(environ, name) == IF name \in DOMAIN environ THEN environ[name] ELSE NoneStr

\* The outcome of lines 163-184 of _build_extra_info.
Settings(model_info, provider, model) ==
    [exc |-> "none", model_info |-> model_info, provider |-> provider, model |-> model]
SettingsError(exc) ==
    [exc |-> exc, model_info |-> NotAModelInfo, provider |-> <<>>, model |-> <<>>]

\* lines 172-177: the explicit api_key_env, else the provider table, else the default
resolve_api_key_env(model_info, provider) ==
    LET api_key_env == strip(OrEmpty(model_info.api_key_env))
        provider_key == lower(provider)
    IN  IF api_key_env # <<>> THEN api_key_env
        ELSE IF provider_key \in DOMAIN PROVIDER_API_KEY_ENV
        THEN PROVIDER_API_KEY_ENV[provider_key]
        ELSE DEFAULT_PROVIDER_API_KEY_ENV

\* resolve_api_key with the environment taking precedence over the config
resolve_api_key_env_first(model_info, api_key_env, environ) ==
    IF TruthyStr(getenv(environ, api_key_env)) THEN getenv(environ, api_key_env)
    ELSE model_info.api_key

\* line 179: model_info.get("api_key") or os.getenv(api_key_env)
resolve_api_key(model_info, api_key_env, environ) ==
    IF TruthyStr(model_info.api_key) THEN model_info.api_key
    ELSE getenv(environ, api_key_env)

\* lines 172-184, on the copy of the config's model_info
fill_model_info(model_info, provider, system_prompt, environ) ==
    LET api_key_env == resolve_api_key_env(model_info, provider)
        api_key == resolve_api_key(model_info, api_key_env, environ)
        with_env ==
            IF strip(OrEmpty(model_info.api_key_env)) = <<>> /\ api_key_env # <<>>
            THEN [model_info EXCEPT !.api_key_env = Str(api_key_env)]
            ELSE model_info
        with_key ==
            IF TruthyStr(api_key) THEN [with_env EXCEPT !.api_key = api_key]
            ELSE with_env
    IN  IF TruthyStr(system_prompt) /\ ~with_key.system_prompt.has
        THEN [with_key EXCEPT !.system_prompt = system_prompt]
        ELSE with_key

\* lines 163-184 of _build_extra_info
resolve_model_settings(config, environ) ==
    IF ~config.model_info.is_dict THEN SettingsError("ValueError")
    ELSE LET provider == strip(OrEmpty(config.model_info.provider))
             model == strip(OrEmpty(config.model_info.model))
         IN  IF provider = <<>> \/ model = <<>> THEN SettingsError("ValueError")
             ELSE Settings(fill_model_info(config.model_info, provider,
                                           config.system_prompt, environ),
                           provider, model)

\* The outcome of building the request context.
Built(extra_info) == [exc |-> "none", extra_info |-> extra_info]
BuildError(exc) == [exc |-> exc, extra_info |-> NoExtra]

\* lines 186-218 of _build_extra_info
build_context(config, record, capture_details, settings) ==
    LET rubric_text == strip(OrEmpty(config.rubric_text))
        api_key_env_value == settings.model_info.api_key_env
        api_key_value == settings.model_info.api_key
    IN  IF rubric_text = <<>> THEN BuildError("ValueError")
        ELSE Built(
            [capture_details |-> capture_details,
             rubric |-> rubric_text,
             score_min |-> IF config.score_min.has THEN config.score_min.n ELSE SCORE_MIN,
             score_max |-> IF config.score_max.has THEN config.score_max.n ELSE SCORE_MAX,
             model_info |-> settings.model_info,
             rubric_source |-> config.source_label,
             provider |-> settings.provider,
             model |-> settings.model,
             api_key_env |->
                 IF api_key_env_value.has /\ strip(api_key_env_value.v) # <<>>
                 THEN Str(strip(api_key_env_value.v)) ELSE NoneStr,
             api_key |-> IF TruthyStr(api_key_value) THEN api_key_value ELSE NoneStr,
             has_metadata |-> record.has_metadata,
             conversation_id |->
                 IF record.conversation_id.has
                 THEN Str(strip(record.conversation_id.v)) ELSE NoneStr,
             original_input |-> NoneStr,
             result_details |-> NoDetails])

\* line 237: str(record.get("ground_truth") or config.ground_truth or "").strip()
resolve_ground_truth(config, record) ==
    strip(IF TruthyStr(record.ground_truth) THEN record.ground_truth.v
          ELSE OrEmpty(config.ground_truth))

\* lines 237-247 of run_example: the request, or the ValueError of a blank
\* ground truth or solution
Request(solution_str, ground_truth, extra_info) ==
    [exc |-> "none", solution_str |-> solution_str,
     ground_truth |-> ground_truth, extra_info |-> extra_info]
RequestError(exc) ==
    [exc |-> exc, solution_str |-> <<>>, ground_truth |-> <<>>, extra_info |-> NoExtra]

\* finish_request without the check of the solution string
finish_request_unchecked_solution(config, record, extra_info) ==
    LET ground_truth == resolve_ground_truth(config, record)
        solution_str == strip(OrEmpty(record.solution_str))
    IN  IF ground_truth = <<>> THEN RequestError("ValueError")
        ELSE Request(solution_str, ground_truth,
                     IF record.original_input.has
                     THEN [extra_info EXCEPT
                              !.original_input = Str(strip(record.original_input.v))]
                     ELSE extra_info)

finish_request(config, record, extra_info) ==
    LET ground_truth == resolve_ground_truth(config, record)
        solution_str == strip(OrEmpty(record.solution_str))
    IN  IF ground_truth = <<>> THEN RequestError("ValueError")
        ELSE IF solution_str = <<>> THEN RequestError("ValueError")
        ELSE Request(solution_str, ground_truth,
                     IF record.original_input.has
                     THEN [extra_info EXCEPT
                              !.original_input = Str(strip(record.original_input.v))]
                     ELSE extra_info)

\* What evaluate_rubric does: it returns a score (with an optional
\* explanation) or raises one of its errors.
Returned(score, explanation) ==
    [kind |-> "return", score |-> score, explanation |-> explanation]
Raised(kind) == [kind |-> kind, score |-> 0, explanation |-> NoneStr]
NotCalled == Raised("not_called")

\* The outcome of score_with_hosted_model: the score returned or the error
\* raised (a CLIError names an environment variable), and extra_info after it.
Scored(score, extra_info) ==
    [exc |-> "none", env_named |-> NoneStr, score |-> SomeNum(score),
     extra_info |-> extra_info]
ScoreError(exc, env_named, extra_info) ==
    [exc |-> exc, env_named |-> env_named, score |-> NoneNum,
     extra_info |-> extra_info]

\* missing_key_env that ignores the api_key_env of model_info
missing_key_env_top_only(extra_info) ==
    IF extra_info.api_key_env.has /\ strip(extra_info.api_key_env.v) # <<>>
    THEN strip(extra_info.api_key_env.v)
    ELSE DEFAULT_PROVIDER_API_KEY_ENV

\* lines 65-69: the environment variable the CLIError names
missing_key_env(extra_info) ==
    LET api_key_env_value ==
            IF TruthyStr(extra_info.api_key_env) THEN extra_info.api_key_env
            ELSE extra_info.model_info.api_key_env
    IN  IF api_key_env_value.has /\ strip(api_key_env_value.v) # <<>>
        THEN strip(api_key_env_value.v)
        ELSE DEFAULT_PROVIDER_API_KEY_ENV

\* whether score_with_hosted_model reaches the call of evaluate_rubric
calls_scorer(extra_info) == extra_info.model_info.is_dict

\* score_with_hosted_model that stores the result also when detail capture
\* was not requested
score_with_hosted_model_always_stores(solution_str, ground_truth, extra_info, outcome) ==
    IF ~extra_info.model_info.is_dict THEN ScoreError("TypeError", NoneStr, extra_info)
    ELSE IF outcome.kind = "MissingAPIKeyError"
    THEN ScoreError("CLIError", Str(missing_key_env(extra_info)), extra_info)
    ELSE IF outcome.kind # "return" THEN ScoreError(outcome.kind, NoneStr, extra_info)
    ELSE Scored(outcome.score,
                [extra_info EXCEPT
                    !.result_details = Details(outcome.score, outcome.explanation)])

\* score_with_hosted_model, with the outcome of its evaluate_rubric call
score_with_hosted_model(solution_str, ground_truth, extra_info, outcome) ==
    IF ~extra_info.model_info.is_dict THEN ScoreError("TypeError", NoneStr, extra_info)
    ELSE IF outcome.kind = "MissingAPIKeyError"
    THEN ScoreError("CLIError", Str(missing_key_env(extra_info)), extra_info)
    ELSE IF outcome.kind # "return" THEN ScoreError(outcome.kind, NoneStr, extra_info)
    ELSE IF extra_info.capture_details
    THEN Scored(outcome.score,
                [extra_info EXCEPT
                    !.result_details = Details(outcome.score, outcome.explanation)])
    ELSE Scored(outcome.score, extra_info)

\* lines 103-122 of _load_example_record: a single JSON object
load_json_record(payload_is_dict, payload, rubric_id, conversation_id) ==
    IF ~payload_is_dict THEN SelectError("ValueError", "not_an_object")
    ELSE IF ~payload.has_solution_str THEN SelectError("ValueError", "no_solution_str")
    ELSE IF TruthyStr(payload.rubric_id) /\ payload.rubric_id.v # rubric_id
    THEN SelectError("CLIError", "other_rubric")
    ELSE IF /\ TruthyStr(conversation_id)
            /\ TruthyStr(payload.conversation_id)
            /\ payload.conversation_id.v # conversation_id.v
    THEN SelectError("CLIError", "other_conversation")
    ELSE Selected(payload)

\* _load_example_record: data is what the file at data_path holds
_load_example_record(is_jsonl, data, rubric_id, conversation_id) ==
    IF is_jsonl
    THEN _select_record_from_jsonl(data.records, rubric_id, conversation_id)
    ELSE load_json_record(data.is_dict, data.payload, rubric_id, conversation_id)

-----------------------------------------------------------------------------
(* src/mcp/tools/api_helpers.py: paginate_results *)

\* math.ceil(a / b) for b # 0
ceil_div(a, b) == IF b > 0 THEN 0 - ((0 - a) \div b) ELSE 0 - (a \div (0 - b))

\* a slice bound as Python reads it in a list of n items: a negative bound
\* counts from the end, and the bound is kept within 0..n
slice_bound(i, n) ==
    IF i < 0 THEN (IF i + n < 0 THEN 0 ELSE i + n)
    ELSE IF i > n THEN n ELSE i

\* items[start:end]
slice(items, start, end) ==
    LET lo == slice_bound(start, Len(items))
        hi == slice_bound(end, Len(items))
    IN  IF lo >= hi THEN <<>> ELSE SubSeq(items, lo + 1, hi)

\* The outcome of paginate_results: the returned mapping, or a raised error.
Page(items, current_page, per_page, total_items, total_pages) ==
    [exc |-> "none", items |-> items, current_page |-> current_page,
     per_page |-> per_page, total_items |-> total_items,
     total_pages |-> total_pages,
     has_next |-> current_page < total_pages, has_prev |-> current_page > 1]
PageError(exc) ==
    [exc |-> exc, items |-> <<>>, current_page |-> 0, per_page |-> 0,
     total_items |-> 0, total_pages |-> 0, has_next |-> FALSE, has_prev |-> FALSE]

\* lines 71-89; the division of line 72 raises ZeroDivisionError for per_page 0
paginate_results(items, page, per_page) ==
    LET total_items == Len(items)
        start_index == (page - 1) * per_page
        end_index == start_index + per_page
    IN  IF total_items > 0 /\ per_page = 0 THEN PageError("ZeroDivisionError")
        ELSE Page(slice(items, start_index, end_index), page, per_page, total_items,
                  IF total_items > 0 THEN ceil_div(total_items, per_page) ELSE 1)

-----------------------------------------------------------------------------
(* src/mcp/tools/ml_utils.py: normalize_features *)

\* A value of a normalized data point: the quotient num / den of the code's
\* division (den > 0), so that 0.0 is num = 0 and 1.0 is num = den; a value
\* the code leaves as it was is v / 1.
Ratio(num, den) == [num |-> num, den |-> den]

\* point.get(feature, 0); a data point is a function from its keys to numbers
point_get(point, feature) ==
    IF feature \in DOMAIN point THEN point[feature] ELSE 0

\* lines 49-54: min and max of each listed feature over the data
feature_stats(data, feature) ==
    LET values == {point_get(data[i], feature) : i \in 1..Len(data)}
    IN  [min |-> SetMin(values), max |-> SetMax(values)]

\* lines 60-66 with the quotient taken by max_val instead of max_val - min_val
normalized_value_by_max(point, feature, stats) ==
    IF stats.max - stats.min # 0
    THEN Ratio(point_get(point, feature) - stats.min, stats.max)
    ELSE Ratio(0, 1)

\* lines 60-66: the normalized value of one feature of one point
normalized_value(point, feature, stats) ==
    IF stats.max - stats.min # 0
    THEN Ratio(point_get(point, feature) - stats.min, stats.max - stats.min)
    ELSE Ratio(0, 1)

\* lines 57-68: the copy of a point with its listed features normalized
normalized_point(point, listed, data) ==
    [feature \in DOMAIN point \cup listed |->
        IF feature \in listed
        THEN normalized_value(point, feature, feature_stats(data, feature))
        ELSE Ratio(point[feature], 1)]

\* normalize_features; min() of line 52 raises ValueError when a feature is
\* listed and there is no data point
normalize_features(data, feature_names) ==
    LET listed == {feature_names[i] : i \in 1..Len(feature_names)}
    IN  IF listed # {} /\ data = <<>> THEN Raise("ValueError")
        ELSE Ok([i \in 1..Len(data) |-> normalized_point(data[i], listed, data)])

-----------------------------------------------------------------------------
(* Initial values of the components *)

RewardIdle ==
    /\ rw_fn = "idle"
    /\ rw_solution_str = <<>>
    /\ rw_ground_truth = <<>>
    /\ rw_extra_info = NoExtraInfo
    /\ rw_result = Ok(0)

SelectIdle ==
    /\ sel_called = FALSE
    /\ sel_records = <<>>
    /\ sel_rubric_id = <<>>
    /\ sel_conversation_id = NoneStr
    /\ sel_result = Selected(NoRecord)

ScoreIdle ==
    /\ sc_called = FALSE
    /\ sc_extra_info = NoExtra
    /\ sc_outcome = NotCalled
    /\ sc_result = ScoreError("unset", NoneStr, NoExtra)

NoArgs ==
    [rubric_id |-> <<>>, conversation_id |-> NoneStr,
     capture_details |-> FALSE, is_jsonl |-> FALSE]

\* the values of run_example's locals before they are assigned ("unset")
RunLocalsUnset ==
    /\ run_config = NoConfig
    /\ run_record = NoRecord
    /\ run_settings = SettingsError("unset")
    /\ run_request = RequestError("unset")
    /\ run_scorer_calls = 0
    /\ run_outcome = NotCalled
    /\ run_error = "none"
    /\ run_result = ScoreError("unset", NoneStr, NoExtra)

RunIdle ==
    /\ run_pc = "NOT_STARTED"
    /\ run_trace = <<>>
    /\ run_args = NoArgs
    /\ run_environ = <<>>
    /\ RunLocalsUnset

MainIdle ==
    /\ main_pc = "NOT_STARTED"
    /\ main_stdout = <<>>
    /\ main_exit = 0
    /\ main_uncaught = "none"

PageIdle ==
    /\ pg_called = FALSE
    /\ pg_items = <<>>
    /\ pg_per_page = 1
    /\ pg_page = 1
    /\ pg_result = PageError("unset")
    /\ pg_fetched = 0
    /\ pg_collected = <<>>

NormIdle ==
    /\ nf_called = FALSE
    /\ nf_data = <<>>
    /\ nf_feature_names = <<>>
    /\ nf_result = Raise("unset")

-----------------------------------------------------------------------------
(* Calls of the reward functions *)

CallComputeReward ==
    /\ rw_fn = "idle"
    /\ \E s \in RewardSolutions, g \in RewardTruths, e \in RewardExtraInfos :
        /\ rw_fn' = "compute_reward"
        /\ rw_solution_str' = s
        /\ rw_ground_truth' = g
        /\ rw_extra_info' = e
        /\ rw_result' = compute_reward(s, g, e)
    /\ UNCHANGED notRewardVars

CallCorrectnessReward ==
    /\ rw_fn = "idle"
    /\ \E s \in CorrectnessStrs, g \in CorrectnessStrs, e \in CorrectnessExtraInfos :
        /\ rw_fn' = "correctness_reward"
        /\ rw_solution_str' = s
        /\ rw_ground_truth' = g
        /\ rw_extra_info' = e
        /\ rw_result' = correctness_reward(s, g, e)
    /\ UNCHANGED notRewardVars

CallAppropriatenessPenalty ==
    /\ rw_fn = "idle"
    /\ \E s \in PenaltySolutions, g \in {<<>>, S_anything}, e \in PenaltyExtraInfos :
        /\ rw_fn' = "appropriateness_penalty"
        /\ rw_solution_str' = s
        /\ rw_ground_truth' = g
        /\ rw_extra_info' = e
        /\ rw_result' = appropriateness_penalty(s, g, e)
    /\ UNCHANGED notRewardVars

InitReward == RewardIdle /\ SelectIdle /\ ScoreIdle /\ RunIdle /\ MainIdle /\ PageIdle /\ NormIdle

NextReward ==
    \/ CallComputeReward
    \/ CallCorrectnessReward
    \/ CallAppropriatenessPenalty

SpecReward == InitReward /\ [][NextReward]_vars

-----------------------------------------------------------------------------
(* Properties of the reward functions *)

\* every value of extra_info is of the documented type: numbers under the
\* score keys, lists of strings under the list keys
WellTyped(extra_info) ==
    /\ extra_info.engagement_score.tag \in {"absent", "num"}
    /\ extra_info.clarity_score.tag \in {"absent", "num"}
    /\ extra_info.key_concepts.tag \in {"absent", "list"}
    /\ extra_info.learning_objectives.tag \in {"absent", "list"}

\* x occurs in y as a contiguous substring
Occurs(x, y) == \E i, j \in 0..Len(y) : i <= j /\ SubSeq(y, i + 1, j) = x

\* C1: for every solution_str, ground_truth and extra_info that is absent,
\* empty or carries numeric scores and lists of strings, compute_reward
\* returns a value in the closed range [-20.0, 50.0].
C1_RewardInRange ==
    (rw_fn = "compute_reward" /\ WellTyped(rw_extra_info)) =>
        /\ rw_result.exc = "none"
        /\ 0 - 20 * Scale <= rw_result.value
        /\ rw_result.value <= 50 * Scale

\* C1 witness: a call whose sum of sub-rewards exceeds 50.0 (a clarity_score
\* of MaxScore alone contributes 1.5 * MaxScore) and is returned as 50.0.
C1_Witness ==
    /\ rw_fn = "compute_reward"
    /\ WellTyped(rw_extra_info)
    /\ rw_extra_info.clarity_score = Num(MaxScore)
    /\ strip(rw_solution_str) # <<>>
    /\ rw_result = Ok(50 * Scale)

\* C2 (as claimed): compute_reward("", ground_truth, None) with a non-empty
\* ground_truth returns exactly -1.0.
C2_EmptySolutionIsMinusOne ==
    (/\ rw_fn = "compute_reward"
     /\ rw_solution_str = <<>>
     /\ rw_ground_truth # <<>>
     /\ rw_extra_info = NoExtraInfo) => rw_result = Ok(0 - Scale)

\* C3 (as claimed): compute_reward never raises, whatever extra_info holds.
C3_NeverRaises == rw_fn = "compute_reward" => rw_result.exc = "none"

\* C4: correctness_reward returns 5.0 when the trimmed lower-cased strings are
\* equal; otherwise 2.5 when one of them is a substring of the other;
\* otherwise, when extra_info has a key_concepts list, 1.0 times the number of
\* its entries that occur case-insensitively in the (trimmed) solution;
\* otherwise 0.0.
C4_CorrectnessPriority ==
    (rw_fn = "correctness_reward" /\ WellTyped(rw_extra_info)) =>
        LET s == lower(strip(rw_solution_str))
            g == lower(strip(rw_ground_truth))
            concepts == rw_extra_info.key_concepts
            hits == Cardinality({i \in 1..Len(concepts.items) :
                                    Occurs(lower(concepts.items[i]), s)})
        IN  /\ rw_result.exc = "none"
            /\ rw_result.value =
                 IF s = g THEN 5 * Scale
                 ELSE IF Occurs(s, g) \/ Occurs(g, s) THEN (5 * Scale) \div 2
                 ELSE IF concepts.tag = "list" THEN hits * Scale
                 ELSE 0

\* C4 witness: neither string contains the other and all three key concepts
\* occur in the solution, so the result is 3.0.
C4_Witness ==
    /\ rw_fn = "correctness_reward"
    /\ rw_extra_info.key_concepts.tag = "list"
    /\ ~Occurs(lower(strip(rw_solution_str)), lower(strip(rw_ground_truth)))
    /\ ~Occurs(lower(strip(rw_ground_truth)), lower(strip(rw_solution_str)))
    /\ rw_result = Ok(3 * Scale)

\* the penalty of one rule of appropriateness_penalty, in units of 1/Scale
PenaltyIf(applies, amount) == IF applies THEN 0 - amount * Scale ELSE 0

\* C15: appropriateness_penalty returns exactly -1.0 for a solution that is
\* empty after trimming, whatever the flags of extra_info; otherwise it
\* returns the sum of -2.0 if the trimmed solution has fewer than 3
\* characters, -5.0 if it holds a spam indicator (in any letter case), -10.0
\* if inappropriate is truthy and -3.0 if off_topic is truthy; the result is
\* never positive and never below -20.0.
C15_PenaltyIsSumOfRules ==
    rw_fn = "appropriateness_penalty" =>
        LET solution == lower(strip(rw_solution_str))
        IN  /\ rw_result.exc = "none"
            /\ rw_result.value <= 0
            /\ rw_result.value >= 0 - 20 * Scale
            /\ IF solution = <<>> THEN rw_result.value = 0 - Scale
               ELSE rw_result.value =
                      PenaltyIf(Len(solution) < 3, 2)
                      + PenaltyIf(\E k \in 1..Len(spam_indicators) :
                                     Occurs(spam_indicators[k], solution), 5)
                      + PenaltyIf(rw_extra_info.inappropriate = "True", 10)
                      + PenaltyIf(rw_extra_info.off_topic = "True", 3)

\* C15 witness: a one-letter solution flagged inappropriate and off topic
\* gets -2.0 - 10.0 - 3.0.
C15_Witness ==
    /\ rw_fn = "appropriateness_penalty"
    /\ Len(strip(rw_solution_str)) = 1
    /\ rw_extra_info.inappropriate = "True"
    /\ rw_extra_info.off_topic = "True"
    /\ rw_result = Ok(0 - 15 * Scale)

-----------------------------------------------------------------------------
(* Calls of _select_record_from_jsonl *)

S_a == <<"a">>
S_b == <<"b">>
S_sp_a_sp == <<" ", "a", " ">>
S_1 == <<"1">>
S_2 == <<"2">>
S_sp_2_sp == <<" ", "2", " ">>
S_answer == <<"o", "k">>

\* the records of a dataset: rubric_id and conversation_id absent, plain or
\* padded with whitespace; solution_str present or not
SelectRecords ==
    {Record(r, c, h, IF h THEN Str(S_answer) ELSE NoneStr, NoneStr, FALSE, NoneStr) :
        r \in {NoneStr, Str(S_a), Str(S_sp_a_sp), Str(S_b)},
        c \in {NoneStr, Str(S_1), Str(S_2), Str(S_sp_2_sp)},
        h \in BOOLEAN}

RECURSIVE SeqsOfLen(_, _)
SeqsOfLen(S, n) ==
    IF n = 0 THEN {<<>>}
    ELSE {Append(q, x) : q \in SeqsOfLen(S, n - 1), x \in S}

SelectDatasets == UNION {SeqsOfLen(SelectRecords, n) : n \in 0..MaxRecords}

CallSelectRecord ==
    /\ ~sel_called
    /\ \E records \in SelectDatasets, rubric_id \in {S_a},
          conversation_id \in {NoneStr, Str(<<>>), Str(S_2)} :
        /\ sel_called' = TRUE
        /\ sel_records' = records
        /\ sel_rubric_id' = rubric_id
        /\ sel_conversation_id' = conversation_id
        /\ sel_result' = _select_record_from_jsonl(records, rubric_id, conversation_id)
    /\ UNCHANGED notSelectVars

InitSelect == RewardIdle /\ SelectIdle /\ ScoreIdle /\ RunIdle /\ MainIdle /\ PageIdle /\ NormIdle

NextSelect == CallSelectRecord

SpecSelect == InitSelect /\ [][NextSelect]_vars

-----------------------------------------------------------------------------
(* Properties of record selection *)

\* C7 (as claimed): the result is the first record whose rubric_id is absent
\* or equal to the requested one and, when a conversation_id is given, whose
\* conversation_id is exactly equal to it; with no such record the call fails
\* with a not-found error and returns no record.
C7_SelectFirstExactMatch ==
    sel_called =>
        LET survives(i) ==
                /\ \/ ~sel_records[i].rubric_id.has
                   \/ sel_records[i].rubric_id.v = sel_rubric_id
                /\ sel_conversation_id.has =>
                       sel_records[i].conversation_id = sel_conversation_id
            survivors == {i \in 1..Len(sel_records) : survives(i)}
        IN  IF survivors = {}
            THEN sel_result.exc = "CLIError" /\ sel_result.record = NoRecord
            ELSE sel_result = Selected(sel_records[SetMin(survivors)])

\* C7 (amended): record values are compared after trimming (a blank or absent
\* rubric_id matches every request, an absent conversation_id counts as "");
\* the first survivor is returned if it contains solution_str and otherwise
\* the call fails with a ValueError; with no survivor it fails with a
\* not-found CLIError and returns no record.
C7_SelectFirstTrimmedMatch ==
    sel_called =>
        LET survives(i) ==
                LET rubric == strip(OrEmpty(sel_records[i].rubric_id))
                    conv == strip(OrEmpty(sel_records[i].conversation_id))
                IN  /\ rubric = <<>> \/ rubric = sel_rubric_id
                    /\ sel_conversation_id.has => conv = sel_conversation_id.v
            survivors == {i \in 1..Len(sel_records) : survives(i)}
        IN  IF survivors = {}
            THEN sel_result.exc = "CLIError" /\ sel_result.record = NoRecord
            ELSE IF sel_records[SetMin(survivors)].has_solution_str
            THEN sel_result = Selected(sel_records[SetMin(survivors)])
            ELSE sel_result.exc = "ValueError" /\ sel_result.record = NoRecord

\* C7 witness: a conversation is requested, the first record does not match
\* it and the second, a different record, is returned.
C7_Witness ==
    /\ sel_called
    /\ sel_conversation_id = Str(S_2)
    /\ Len(sel_records) >= 2
    /\ sel_records[1] # sel_records[2]
    /\ sel_records[1].conversation_id = Str(S_1)
    /\ sel_result = Selected(sel_records[2])

-----------------------------------------------------------------------------
(* Calls of score_with_hosted_model *)

S_openai == <<"o","p","e","n","a","i">>
S_OpenAI_sp == <<"O","p","e","n","A","I"," ">>
S_xai == <<"x","a","i">>
S_acme == <<"a","c","m","e">>
S_model_sp == <<" ","m"," ">>
S_rubric_sp == <<" ","r"," ">>
S_truth_sp == <<" ","g","t"," ">>
S_sp == <<" ">>
S_sp_MYKEY_sp == <<" ","M","Y","K","E","Y"," ">>
S_MYKEY == <<"M","Y","K","E","Y">>
S_sp_TOP_sp == <<" ","T","O","P"," ">>
S_cfg_key == <<"c","f","g">>
S_why == <<"w","h","y">>

\* what evaluate_rubric may do: return any score in -MaxScorerValue ..
\* MaxScorerValue, with or without an explanation, or raise
ScorerOutcomes ==
    {Returned(n, NoneStr) : n \in (0 - MaxScorerValue)..MaxScorerValue}
    \cup {Returned(1, Str(S_why))}
    \cup {Raised("MissingAPIKeyError"), Raised("ModelNotFoundError"),
          Raised("ProviderRequestError")}

\* request contexts handed to score_with_hosted_model by any caller
ScoreExtraInfos ==
    {[NoExtra EXCEPT
         !.capture_details = c, !.rubric = strip(S_rubric_sp),
         !.score_min = SCORE_MIN, !.score_max = SCORE_MAX,
         !.model_info = m, !.provider = S_openai, !.model = strip(S_model_sp),
         !.api_key_env = top] :
        c \in BOOLEAN,
        top \in {NoneStr, Str(S_sp), Str(S_sp_TOP_sp)},
        m \in {NotAModelInfo} \cup
              {ModelInfo(Str(S_openai), Str(strip(S_model_sp)), e, NoneStr, NoneStr) :
                  e \in {NoneStr, Str(<<>>), Str(S_sp_MYKEY_sp)}}}

CallScore ==
    /\ ~sc_called
    /\ \E e \in ScoreExtraInfos, o \in ScorerOutcomes :
        /\ sc_called' = TRUE
        /\ sc_extra_info' = e
        /\ sc_outcome' = IF calls_scorer(e) THEN o ELSE NotCalled
        /\ sc_result' = score_with_hosted_model(<<"s">>, <<"g">>, e, o)
    /\ UNCHANGED notScoreVars

InitScore == RewardIdle /\ SelectIdle /\ ScoreIdle /\ RunIdle /\ MainIdle /\ PageIdle /\ NormIdle

NextScore == CallScore

SpecScore == InitScore /\ [][NextScore]_vars

-----------------------------------------------------------------------------
(* Properties of score_with_hosted_model *)

\* x is a string that is not blank
NonBlank(x) == x.has /\ strip(x.v) # <<>>

\* C10: when the scorer signals a missing credential the call fails with a
\* CLIError naming the request's api_key_env (extra_info's value, or
\* model_info's when extra_info has none), trimmed, or OPENAI_API_KEY when
\* that is missing or blank; any other scorer failure propagates unchanged;
\* in neither case is a score returned.
C10_MissingKeyNamesEnv ==
    sc_called =>
        LET top == sc_extra_info.api_key_env
            inner == sc_extra_info.model_info.api_key_env
            requested == IF top.has /\ top.v # <<>> THEN top ELSE inner
            expected == IF NonBlank(requested) THEN strip(requested.v)
                        ELSE <<"O","P","E","N","A","I","_","A","P","I","_","K","E","Y">>
        IN  /\ sc_outcome.kind = "MissingAPIKeyError" =>
                /\ sc_result.exc = "CLIError"
                /\ sc_result.env_named = Str(expected)
                /\ ~sc_result.score.has
            /\ sc_outcome.kind \in {"ModelNotFoundError", "ProviderRequestError"} =>
                /\ sc_result.exc = sc_outcome.kind
                /\ sc_result.env_named = NoneStr
                /\ ~sc_result.score.has

\* C10 witness: a missing credential is signalled for a request whose only
\* api_key_env is the one of model_info, and the CLIError names it.
C10_Witness ==
    /\ sc_called
    /\ sc_outcome.kind = "MissingAPIKeyError"
    /\ ~sc_extra_info.api_key_env.has
    /\ sc_extra_info.model_info.api_key_env = Str(S_sp_MYKEY_sp)
    /\ sc_result.exc = "CLIError"
    /\ sc_result.env_named = Str(S_MYKEY)

-----------------------------------------------------------------------------
(* run_example: one invocation of the rubric example *)

S_sp_ok_sp == <<" ","o","k"," ">>
S_sp_2 == <<" ","2">>
S_sp_q_sp == <<" ","q"," ">>
S_sys == <<"s","y","s">>

EnvNames == {<<"O","P","E","N","A","I","_","A","P","I","_","K","E","Y">>, <<"A","N","T","H","R","O","P","I","C","_","A","P","I","_","K","E","Y">>, <<"X","A","I","_","A","P","I","_","K","E","Y">>, S_MYKEY}

\* os.environ: no key variable set, or each set to a value of its own
Environments == {<<>>, [n \in EnvNames |-> Str(<<"$">> \o n)]}

BaseModelInfo ==
    ModelInfo(Str(S_OpenAI_sp), Str(S_model_sp), NoneStr, NoneStr, NoneStr)

BaseConfig ==
    Config(BaseModelInfo, NoneStr, Str(S_rubric_sp), NoneNum, NoneNum, Str(S_truth_sp))

\* configs that differ in provider, api_key_env and api_key
CredentialConfigs ==
    {[BaseConfig EXCEPT
         !.model_info = ModelInfo(Str(p), Str(S_model_sp), e, k, NoneStr)] :
        p \in {S_OpenAI_sp, S_xai, S_acme},
        e \in {NoneStr, Str(S_sp), Str(S_sp_MYKEY_sp)},
        k \in {NoneStr, Str(<<>>), Str(S_cfg_key)}}

\* configs with one required setting missing or blank
IncompleteConfigs ==
    {[BaseConfig EXCEPT !.model_info = NotAModelInfo]}
    \cup {[BaseConfig EXCEPT !.model_info.provider = x] : x \in {NoneStr, Str(S_sp)}}
    \cup {[BaseConfig EXCEPT !.model_info.model = x] : x \in {NoneStr, Str(S_sp)}}
    \cup {[BaseConfig EXCEPT !.rubric_text = x] : x \in {NoneStr, Str(S_sp)}}
    \cup {[BaseConfig EXCEPT !.ground_truth = x] : x \in {NoneStr, Str(S_sp)}}

\* configs with a score range or a system prompt of their own
OtherConfigs ==
    {[BaseConfig EXCEPT !.score_min = SomeNum(0 - 1), !.score_max = SomeNum(1)],
     [BaseConfig EXCEPT !.system_prompt = Str(S_sys)],
     [BaseConfig EXCEPT !.system_prompt = Str(S_sys),
                        !.model_info.system_prompt = Str(S_why)]}

RunConfigs == CredentialConfigs \cup IncompleteConfigs \cup OtherConfigs

BaseRecord == Record(Str(S_a), Str(S_2), TRUE, Str(S_sp_ok_sp), NoneStr, FALSE, NoneStr)

RunRecords ==
    {BaseRecord}
    \cup {[BaseRecord EXCEPT !.has_solution_str = FALSE, !.solution_str = NoneStr]}
    \cup {[BaseRecord EXCEPT !.solution_str = x] : x \in {Str(<<>>), Str(S_sp)}}
    \cup {[BaseRecord EXCEPT !.ground_truth = x] : x \in {Str(S_sp), Str(S_sp_ok_sp)}}
    \cup {[BaseRecord EXCEPT !.conversation_id = x] :
             x \in {NoneStr, Str(S_1), Str(S_sp), Str(S_sp_2)}}
    \cup {[BaseRecord EXCEPT !.rubric_id = x] : x \in {NoneStr, Str(S_b)}}
    \cup {[BaseRecord EXCEPT !.has_metadata = TRUE]}
    \cup {[BaseRecord EXCEPT !.original_input = x] : x \in {Str(S_sp), Str(S_sp_q_sp)}}

\* what the file at data_path holds: the records of a JSONL file, or the
\* payload of a JSON file (a JSON object or not)
DataFile(records, is_dict, payload) ==
    [records |-> records, is_dict |-> is_dict, payload |-> payload]

JsonlFiles ==
    {DataFile(q, FALSE, NoRecord) :
        q \in {<<>>} \cup {<<r>> : r \in RunRecords}
              \cup {<<r, BaseRecord>> : r \in RunRecords}}

JsonFiles ==
    {DataFile(<<>>, TRUE, r) : r \in RunRecords}
    \cup {DataFile(<<>>, FALSE, NoRecord)}

RunArgs ==
    [rubric_id : {S_a}, conversation_id : {NoneStr, Str(S_2)},
     capture_details : BOOLEAN, is_jsonl : BOOLEAN]

Stages ==
    <<"LOADING_CONFIG", "SELECTING_RECORD", "RESOLVING_CREDENTIALS",
      "BUILDING_CONTEXT", "INVOKING_SCORER">>

InitRun ==
    /\ RewardIdle /\ SelectIdle /\ ScoreIdle /\ PageIdle /\ NormIdle
    /\ main_pc = "RUNNING"
    /\ main_stdout = <<>>
    /\ main_exit = 0
    /\ main_uncaught = "none"
    /\ run_pc = "LOADING_CONFIG"
    /\ run_trace = <<"LOADING_CONFIG">>
    /\ run_args \in RunArgs
    /\ run_environ \in Environments
    /\ RunLocalsUnset

\* the run moves to the next stage
Enter(stage) ==
    /\ run_pc' = stage
    /\ run_trace' = Append(run_trace, stage)
    /\ run_error' = run_error

\* an exception leaves run_example
Fail(exc) ==
    /\ run_pc' = "FAILED"
    /\ run_trace' = Append(run_trace, "FAILED")
    /\ run_error' = exc

\* line 229: _load_rubric_config; the parser or the lookup of rubric_id may fail
LoadConfig ==
    /\ run_pc = "LOADING_CONFIG"
    /\ \/ \E config \in RunConfigs :
             /\ run_config' = config
             /\ Enter("SELECTING_RECORD")
       \/ /\ Fail("ConfigError")
          /\ UNCHANGED run_config
    /\ UNCHANGED <<run_args, run_environ, run_record, run_settings, run_request,
                   run_scorer_calls, run_outcome, run_result>>
    /\ UNCHANGED notRunVars

\* lines 230-234: _load_example_record; reading the file may fail
LoadRecord ==
    /\ run_pc = "SELECTING_RECORD"
    /\ \/ \E data \in IF run_args.is_jsonl THEN JsonlFiles ELSE JsonFiles :
             LET loaded == _load_example_record(run_args.is_jsonl, data,
                               run_args.rubric_id, run_args.conversation_id)
             IN  IF loaded.exc = "none"
                 THEN /\ run_record' = loaded.record
                      /\ Enter("RESOLVING_CREDENTIALS")
                 ELSE /\ Fail(loaded.exc)
                      /\ UNCHANGED run_record
       \/ /\ Fail("OSError")
          /\ UNCHANGED run_record
    /\ UNCHANGED <<run_args, run_environ, run_config, run_settings, run_request,
                   run_scorer_calls, run_outcome, run_result>>
    /\ UNCHANGED notRunVars

\* the config after lines 163-184: model_info is a deep copy (line 163), so
\* the keys set at lines 177, 181 and 184 do not reach config.model_info
config_after_settings(config, settings) == config

\* lines 163-184 of _build_extra_info, called at line 236
ResolveCredentials ==
    /\ run_pc = "RESOLVING_CREDENTIALS"
    /\ LET settings == resolve_model_settings(run_config, run_environ)
       IN  IF settings.exc = "none"
           THEN /\ run_settings' = settings
                /\ run_config' = config_after_settings(run_config, settings)
                /\ Enter("BUILDING_CONTEXT")
           ELSE /\ Fail(settings.exc)
                /\ UNCHANGED <<run_settings, run_config>>
    /\ UNCHANGED <<run_args, run_environ, run_record, run_request,
                   run_scorer_calls, run_outcome, run_result>>
    /\ UNCHANGED notRunVars

\* lines 186-218 of _build_extra_info and lines 237-247 of run_example
build_request(config, record, capture_details, settings) ==
    LET built == build_context(config, record, capture_details, settings)
    IN  IF built.exc # "none" THEN RequestError(built.exc)
        ELSE finish_request(config, record, built.extra_info)

BuildContext ==
    /\ run_pc = "BUILDING_CONTEXT"
    /\ LET request == build_request(run_config, run_record,
                                    run_args.capture_details, run_settings)
       IN  IF request.exc = "none"
           THEN /\ run_request' = request
                /\ Enter("INVOKING_SCORER")
           ELSE /\ Fail(request.exc)
                /\ UNCHANGED run_request
    /\ UNCHANGED <<run_args, run_environ, run_config, run_record, run_settings,
                   run_scorer_calls, run_outcome, run_result>>
    /\ UNCHANGED notRunVars

\* InvokeScorer with a local retry after a provider request error
InvokeScorer_with_retry ==
    /\ run_pc = "INVOKING_SCORER"
    /\ \E outcome \in ScorerOutcomes :
        LET result == score_with_hosted_model(run_request.solution_str,
                          run_request.ground_truth, run_request.extra_info, outcome)
        IN  /\ run_result' = result
            /\ run_outcome' = outcome
            /\ run_scorer_calls' = run_scorer_calls + 1
            /\ IF result.exc = "none" THEN Enter("DONE")
               ELSE IF result.exc = "ProviderRequestError" /\ run_scorer_calls < 2
               THEN Enter("INVOKING_SCORER")
               ELSE Fail(result.exc)
    /\ UNCHANGED <<run_args, run_environ, run_config, run_record, run_settings,
                   run_request>>
    /\ UNCHANGED notRunVars

\* lines 249-255: score_with_hosted_model, which calls evaluate_rubric once
InvokeScorer ==
    /\ run_pc = "INVOKING_SCORER"
    /\ \E outcome \in ScorerOutcomes :
        LET result == score_with_hosted_model(run_request.solution_str,
                          run_request.ground_truth, run_request.extra_info, outcome)
        IN  /\ run_result' = result
            /\ run_outcome' = outcome
            /\ run_scorer_calls' = run_scorer_calls + 1
            /\ IF result.exc = "none" THEN Enter("DONE") ELSE Fail(result.exc)
    /\ UNCHANGED <<run_args, run_environ, run_config, run_record, run_settings,
                   run_request>>
    /\ UNCHANGED notRunVars

\* The classes of each exception that can leave run_example, most derived
\* first. CLIError is what osmosis_ai.cli_services raises, also for a rubric
\* id missing from the config ("ConfigError" is that kind of CLIError);
\* ModelNotFoundError and ProviderRequestError are the errors of
\* osmosis_ai.rubric_types, which derive from RuntimeError.
ExceptionClasses ==
    [exc \in {"ConfigError", "CLIError", "OSError", "ValueError", "TypeError",
              "ModelNotFoundError", "ProviderRequestError"} |->
        CASE exc = "ConfigError" -> {"ConfigError", "CLIError", "Exception"}
          [] exc = "ModelNotFoundError" ->
                {"ModelNotFoundError", "ProviderRequestError", "RuntimeError", "Exception"}
          [] exc = "ProviderRequestError" ->
                {"ProviderRequestError", "RuntimeError", "Exception"}
          [] OTHER -> {exc, "Exception"}]

\* line 285: except (CLIError, OSError, ValueError, TypeError)
main_catches == {"CLIError", "OSError", "ValueError", "TypeError"}

caught_by_main(exc) == ExceptionClasses[exc] \cap main_catches # {}

\* lines 289-306: the lines main prints after a successful run
success_lines(capture_details, extra_info) ==
    <<"score">>
    \o (IF extra_info.conversation_id.has /\ strip(extra_info.conversation_id.v) # <<>>
        THEN <<"conversation">> ELSE <<>>)
    \o (IF /\ capture_details
           /\ extra_info.result_details.has
           /\ extra_info.result_details.explanation.has
           /\ strip(extra_info.result_details.explanation.v) # <<>>
        THEN <<"explanation">> ELSE <<>>)

\* lines 277-306 of main, once run_example has returned or raised: a caught
\* error is printed as one line and the process exits with status 1; an
\* error that is not caught leaves main (the interpreter then prints its
\* traceback on stderr and exits with status 1); a result is printed.
main ==
    /\ main_pc = "RUNNING"
    /\ run_pc \in {"DONE", "FAILED"}
    /\ main_pc' = "EXITED"
    /\ IF run_pc = "DONE"
       THEN /\ main_stdout' = success_lines(run_args.capture_details,
                                            run_result.extra_info)
            /\ main_exit' = 0
            /\ main_uncaught' = "none"
       ELSE IF caught_by_main(run_error)
       THEN /\ main_stdout' = <<"error">>
            /\ main_exit' = 1
            /\ main_uncaught' = "none"
       ELSE /\ main_stdout' = <<>>
            /\ main_exit' = 1
            /\ main_uncaught' = run_error
    /\ UNCHANGED notMainVars

Init == InitRun

Next ==
    \/ LoadConfig
    \/ LoadRecord
    \/ ResolveCredentials
    \/ BuildContext
    \/ InvokeScorer
    \/ main

Spec == Init /\ [][Next]_vars

-----------------------------------------------------------------------------
(* Properties of run_example *)

\* the config and the record of the run have been loaded
InputsLoaded == Len(run_trace) >= 3 /\ run_trace[3] = "RESOLVING_CREDENTIALS"

\* C5 (as claimed): the score a run returns lies within the [score_min,
\* score_max] of its request context, whatever the scorer returned.
C5_ScoreWithinRange ==
    run_pc = "DONE" =>
        /\ run_result.score.has
        /\ run_request.extra_info.score_min <= run_result.score.n
        /\ run_result.score.n <= run_request.extra_info.score_max

\* C6: the stages are entered in the order LOADING_CONFIG, SELECTING_RECORD,
\* RESOLVING_CREDENTIALS, BUILDING_CONTEXT, INVOKING_SCORER, each at most
\* once; the run ends in DONE only after all five, an error ends it in FAILED
\* at once and nothing follows FAILED or DONE; the scorer is called at most
\* once, and only in INVOKING_SCORER.
C6_StagesInOrder ==
    LET n == Len(run_trace)
        terminal == {"DONE", "FAILED"}
    IN  /\ n >= 1 /\ n <= Len(Stages) + 1
        /\ run_trace[n] = run_pc
        /\ \A i \in 1..(n - 1) : run_trace[i] = Stages[i]
        /\ run_pc \notin terminal => (n <= Len(Stages) /\ run_pc = Stages[n])
        /\ run_pc = "DONE" => n = Len(Stages) + 1
        /\ (run_pc = "FAILED") = (run_error # "none")
        /\ run_scorer_calls <= 1
        /\ run_scorer_calls = 1 => (n = Len(Stages) + 1 /\ run_pc \in terminal)
        /\ run_pc = "DONE" => run_scorer_calls = 1

\* C6 witness: the scorer fails with a provider request error; the run has
\* passed all five stages, called the scorer once and is FAILED.
C6_Witness ==
    /\ run_pc = "FAILED"
    /\ run_trace = Stages \o <<"FAILED">>
    /\ run_outcome.kind = "ProviderRequestError"
    /\ run_scorer_calls = 1

\* C8: the resolved api_key_env is the explicit non-blank config value
\* (trimmed), else the provider table's entry for the lower-cased provider,
\* else OPENAI_API_KEY; the resolved api_key is the explicit config api_key
\* if there is one, else the value of the environment variable of that name;
\* the request context carries the same two values.
C8_CredentialPrecedence ==
    run_settings.exc = "none" =>
        LET cfg == run_config.model_info
            provider_key == lower(strip(OrEmpty(cfg.provider)))
            expected_env ==
                IF NonBlank(cfg.api_key_env) THEN strip(cfg.api_key_env.v)
                ELSE IF provider_key \in DOMAIN PROVIDER_API_KEY_ENV
                THEN PROVIDER_API_KEY_ENV[provider_key]
                ELSE <<"O","P","E","N","A","I","_","A","P","I","_","K","E","Y">>
            env_value ==
                IF expected_env \in DOMAIN run_environ
                THEN run_environ[expected_env] ELSE NoneStr
            expected_key ==
                IF cfg.api_key.has /\ cfg.api_key.v # <<>> THEN cfg.api_key
                ELSE IF env_value.has /\ env_value.v # <<>> THEN env_value
                ELSE NoneStr
            resolved == run_settings.model_info
        IN  /\ resolved.api_key_env.has
            /\ strip(resolved.api_key_env.v) = expected_env
            /\ expected_key.has => resolved.api_key = expected_key
            /\ ~expected_key.has => resolved.api_key = cfg.api_key
            /\ run_request.exc = "none" =>
                /\ run_request.extra_info.model_info = resolved
                /\ run_request.extra_info.api_key_env = Str(expected_env)
                /\ run_request.extra_info.api_key = expected_key

\* C8 witness: provider OpenAI, no explicit api_key_env or api_key, and
\* OPENAI_API_KEY set in the environment: the key is the environment's.
C8_Witness ==
    /\ run_settings.exc = "none"
    /\ run_request.exc = "none"
    /\ ~run_config.model_info.api_key_env.has
    /\ ~run_config.model_info.api_key.has
    /\ run_settings.provider = strip(S_OpenAI_sp)
    /\ run_request.extra_info.api_key_env = Str(<<"O","P","E","N","A","I","_","A","P","I","_","K","E","Y">>)
    /\ run_request.extra_info.api_key = Str(<<"$">> \o <<"O","P","E","N","A","I","_","A","P","I","_","K","E","Y">>)

\* the ground truth of a run: the record's value, else the config's
GroundTruthOf(config, record) ==
    IF record.ground_truth.has /\ record.ground_truth.v # <<>>
    THEN record.ground_truth ELSE config.ground_truth

\* a required part of the request is missing or blank after trimming
RequestIncomplete ==
    \/ ~NonBlank(run_config.model_info.provider)
    \/ ~NonBlank(run_config.model_info.model)
    \/ ~NonBlank(run_config.rubric_text)
    \/ ~NonBlank(GroundTruthOf(run_config, run_record))
    \/ ~NonBlank(run_record.solution_str)

\* C9: the scorer is called only in a run whose config and record are
\* loaded and whose provider, model, rubric text, ground truth and solution
\* string are all non-blank; a run with one of them missing or blank never
\* reaches the scorer and ends with a ValueError.
C9_ScorerOnlyWithValidRequest ==
    /\ run_scorer_calls > 0 => (InputsLoaded /\ ~RequestIncomplete)
    /\ (InputsLoaded /\ RequestIncomplete) =>
        /\ run_pc \notin {"INVOKING_SCORER", "DONE"}
        /\ run_scorer_calls = 0
        /\ run_pc = "FAILED" => run_error = "ValueError"

\* C9 witness: only the solution string is blank; the run fails in
\* BUILDING_CONTEXT with a ValueError and the scorer was not called.
C9_Witness ==
    /\ run_pc = "FAILED"
    /\ run_error = "ValueError"
    /\ run_trace = SubSeq(Stages, 1, 4) \o <<"FAILED">>
    /\ run_record.has_solution_str
    /\ ~NonBlank(run_record.solution_str)
    /\ NonBlank(run_config.model_info.provider)
    /\ NonBlank(run_config.model_info.model)
    /\ NonBlank(run_config.rubric_text)
    /\ NonBlank(GroundTruthOf(run_config, run_record))
    /\ run_scorer_calls = 0

-----------------------------------------------------------------------------
(* Calls of paginate_results *)

\* the lists paginated: every list of at most MaxItems items, items may repeat
PageItemLists == UNION {SeqsOfLen({"x", "y"}, n) : n \in 0..MaxItems}

\* a caller asks for any page
CallPaginate ==
    /\ \E page \in (0 - MaxPage)..MaxPage :
          /\ pg_page' = page
          /\ pg_result' = paginate_results(pg_items, page, pg_per_page)
    /\ pg_called' = TRUE
    /\ UNCHANGED <<pg_items, pg_per_page, pg_fetched, pg_collected>>
    /\ UNCHANGED notPageVars

\* a reader who was told total_pages fetches the pages 1, 2, ..., total_pages
\* in order and concatenates their items
FetchNextPage ==
    /\ pg_called /\ pg_result.exc = "none"
    /\ pg_fetched < pg_result.total_pages
    /\ LET fetched == paginate_results(pg_items, pg_fetched + 1, pg_per_page)
       IN  /\ pg_page' = pg_fetched + 1
           /\ pg_result' = fetched
           /\ pg_fetched' = pg_fetched + 1
           /\ pg_collected' = pg_collected \o fetched.items
    /\ UNCHANGED <<pg_called, pg_items, pg_per_page>>
    /\ UNCHANGED notPageVars

InitPaginate ==
    /\ RewardIdle /\ SelectIdle /\ ScoreIdle /\ RunIdle /\ MainIdle /\ NormIdle
    /\ pg_called = FALSE
    /\ pg_items \in PageItemLists
    /\ pg_per_page \in (0 - MaxPerPage)..MaxPerPage
    /\ pg_page = 1
    /\ pg_result = PageError("unset")
    /\ pg_fetched = 0
    /\ pg_collected = <<>>

NextPaginate ==
    \/ CallPaginate
    \/ FetchNextPage

SpecPaginate == InitPaginate /\ [][NextPaginate]_vars

\* the reader has fetched every page up to the reported total_pages
AllPagesFetched ==
    pg_called /\ pg_result.exc = "none" /\ pg_fetched >= pg_result.total_pages

\* C12 (as claimed): for every list and every per_page, the items of the
\* pages 1 .. total_pages, concatenated, are the original list.
C12_PagesReproduceItems ==
    AllPagesFetched => pg_collected = pg_items

\* C13 (as claimed): for every list, page and per_page the call returns a
\* result with at most per_page items, has_next = (page < total_pages) and
\* has_prev = (page > 1).
C13_PageWithinPerPage ==
    pg_called =>
        /\ pg_result.exc = "none"
        /\ Len(pg_result.items) <= pg_per_page
        /\ pg_result.has_next = (pg_page < pg_result.total_pages)
        /\ pg_result.has_prev = (pg_page > 1)

-----------------------------------------------------------------------------
(* Calls of normalize_features *)

\* the keys a data point may have, and the values of a key
PointFeatures == {"f", "g"}
PointValues == (0 - MaxValue)..MaxValue

\* every data point: any subset of the keys, each with any value
DataPoints == UNION {[keys -> PointValues] : keys \in SUBSET PointFeatures}

NormDatasets == UNION {SeqsOfLen(DataPoints, n) : n \in 0..MaxPoints}

\* feature_names: none, one, two, one listed twice, one no point has
NormFeatureLists == {<<>>, <<"f">>, <<"f", "g">>, <<"g", "f", "g">>, <<"h">>}

CallNormalizeFeatures ==
    /\ ~nf_called
    /\ nf_called' = TRUE
    /\ nf_result' = normalize_features(nf_data, nf_feature_names)
    /\ UNCHANGED <<nf_data, nf_feature_names>>
    /\ UNCHANGED notNormVars

InitNormalize ==
    /\ RewardIdle /\ SelectIdle /\ ScoreIdle /\ RunIdle /\ MainIdle /\ PageIdle
    /\ nf_called = FALSE
    /\ nf_data \in NormDatasets
    /\ nf_feature_names \in NormFeatureLists
    /\ nf_result = Raise("unset")

NextNormalize == CallNormalizeFeatures

SpecNormalize == InitNormalize /\ [][NextNormalize]_vars

\* the values of a feature in the data handed in, a missing one counting as 0
InputValues(feature) ==
    {IF feature \in DOMAIN nf_data[i] THEN nf_data[i][feature] ELSE 0 :
        i \in 1..Len(nf_data)}

\* C14: in the output of normalize_features every listed feature is, at each
\* point, (v - min) / (max - min) of its input value v (0 when the point
\* lacks the feature), so it lies in 0.0 .. 1.0, is 0.0 at some point and
\* 1.0 at some point; unless all its input values are equal, and then it is
\* exactly 0.0 at every point.
C14_NormalizedRange ==
    (nf_called /\ nf_result.exc = "none") =>
        LET out == nf_result.value
        IN  /\ Len(out) = Len(nf_data)
            /\ \A k \in 1..Len(nf_feature_names) :
                LET feature == nf_feature_names[k]
                    values == InputValues(feature)
                IN  IF Cardinality(values) <= 1
                    THEN \A i \in 1..Len(out) : out[i][feature].num = 0
                    ELSE /\ \A i \in 1..Len(out) :
                              LET r == out[i][feature]
                                  v == IF feature \in DOMAIN nf_data[i]
                                       THEN nf_data[i][feature] ELSE 0
                              IN  /\ r.den > 0 /\ 0 <= r.num /\ r.num <= r.den
                                  /\ r.num * (SetMax(values) - SetMin(values))
                                        = (v - SetMin(values)) * r.den
                         /\ \E i \in 1..Len(out) : out[i][feature].num = 0
                         /\ \E i \in 1..Len(out) :
                              out[i][feature].num = out[i][feature].den

\* C14 witness: two points, one lacking the feature; the missing value counts
\* as 0 and is the maximum, so that point is normalized to 1.0.
C14_Witness ==
    /\ nf_called /\ nf_result.exc = "none"
    /\ nf_feature_names = <<"f">>
    /\ Len(nf_data) = 2
    /\ "f" \in DOMAIN nf_data[1] /\ nf_data[1]["f"] < 0
    /\ "f" \notin DOMAIN nf_data[2]
    /\ nf_result.value[1]["f"] = Ratio(0, 0 - nf_data[1]["f"])
    /\ nf_result.value[2]["f"].num = nf_result.value[2]["f"].den

-----------------------------------------------------------------------------
(* Properties of main *)

\* C11 (as claimed): every error that ends the run is caught in main and
\* reported as a single error line, the process exits with a non-zero
\* status, and no success line is printed.
C11_ErrorsCaughtAtBoundary ==
    (main_pc = "EXITED" /\ run_pc = "FAILED") =>
        /\ main_uncaught = "none"
        /\ main_stdout = <<"error">>
        /\ main_exit # 0

-----------------------------------------------------------------------------
(* Properties of the request context *)

\* an optional string field is absent, or trimmed and not blank
TrimmedOrAbsent(x) == x.has => (x.v # <<>> /\ strip(x.v) = x.v)

\* C16 (as claimed): in the request context built from a config and a
\* record, score_min and score_max are 0.0 and 1.0 when the config leaves
\* them unset, and rubric, provider, model, api_key_env, conversation_id and
\* original_input are trimmed and never hold an empty or blank string.
C16_ContextStringsNormalized ==
    run_request.exc = "none" =>
        LET extra_info == run_request.extra_info
        IN  /\ ~run_config.score_min.has => extra_info.score_min = SCORE_MIN
            /\ ~run_config.score_max.has => extra_info.score_max = SCORE_MAX
            /\ TrimmedOrAbsent(Str(extra_info.rubric))
            /\ TrimmedOrAbsent(Str(extra_info.provider))
            /\ TrimmedOrAbsent(Str(extra_info.model))
            /\ TrimmedOrAbsent(extra_info.api_key_env)
            /\ TrimmedOrAbsent(extra_info.conversation_id)
            /\ TrimmedOrAbsent(extra_info.original_input)

\* C17: score_with_hosted_model leaves the request context as it was, except
\* that when detail capture was requested and the scorer returned, it adds
\* result_details, the scorer's structured result, and returns that result's
\* score; and once the config is loaded, no step of the run changes it.
C17_OnlyResultDetailsAdded ==
    /\ [](run_scorer_calls = 1 =>
            LET before == run_request.extra_info
                after == run_result.extra_info
            IN  IF before.capture_details /\ run_outcome.kind = "return"
                THEN /\ after = [before EXCEPT !.result_details =
                                    Details(run_outcome.score, run_outcome.explanation)]
                     /\ run_result.score = SomeNum(after.result_details.score)
                ELSE after = before)
    /\ [][run_pc # "LOADING_CONFIG" => run_config' = run_config]_vars

\* C17 witness: detail capture was requested, the scorer returned a score with
\* an explanation, and the context after the call holds them
C17_Witness ==
    /\ run_pc = "DONE"
    /\ run_request.extra_info.capture_details
    /\ ~run_request.extra_info.result_details.has
    /\ run_result.extra_info.result_details = Details(1, Str(S_why))
    /\ run_config.model_info.api_key_env = NoneStr
    /\ run_request.extra_info.model_info.api_key_env.has

====
